---- MODULE Spec2Model ----
(***************************************************************************)
(* A model of the regular-expression engine of src/src/lib.rs: the parser  *)
(* (Pattern::new, Matcher::new, SingleCharacterMatcher::new), the matcher  *)
(* engine (Matcher::test, Matcher::test_group) and the unanchored search   *)
(* of Pattern::run.                                                        *)
(*                                                                         *)
(* A character is a string of length one, a pattern or a line a sequence   *)
(* of characters.  Option<usize> is a sequence of length 0 (None) or 1.    *)
(* Fields named gid, from, to, part and the variable log are ghost state:  *)
(* they record what the code did and are never read by an operator that    *)
(* models a decision of the code.                                          *)
(***************************************************************************)
EXTENDS Integers, Sequences, FiniteSets

VARIABLES pattern, line, pc, compiled, iter, result, log

vars == <<pattern, line, pc, compiled, iter, result, log>>

(***************************************************************************)
(* Bounds of the model.                                                    *)
(***************************************************************************)
MaxTokens == 3
MaxLineLen == 2
MaxParseLen == 4

(***************************************************************************)
(* Characters.                                                             *)
(***************************************************************************)
Digits == {"0", "1", "2", "3", "4", "5", "6", "7", "8", "9"}

Letters ==
    {"a", "b", "c", "d", "e", "f", "g", "h", "i", "j", "k", "l", "m",
     "n", "o", "p", "q", "r", "s", "t", "u", "v", "w", "x", "y", "z",
     "A", "B", "C", "D", "E", "F", "G", "H", "I", "J", "K", "L", "M",
     "N", "O", "P", "Q", "R", "S", "T", "U", "V", "W", "X", "Y", "Z"}

\* char::is_ascii_digit
IsAsciiDigit(ch) == ch \in Digits

\* char::is_alphanumeric, on the ASCII characters the model draws from
IsAlphanumeric(ch) == ch \in Letters \cup Digits

\* char::is_ascii_alphanumeric
IsAsciiAlphanumeric(ch) == ch \in Letters \cup Digits

\* String::from(dig).parse::<usize>() of one ASCII digit
DigitValue(ch) ==
    CASE ch = "0" -> 0 [] ch = "1" -> 1 [] ch = "2" -> 2 [] ch = "3" -> 3
      [] ch = "4" -> 4 [] ch = "5" -> 5 [] ch = "6" -> 6 [] ch = "7" -> 7
      [] ch = "8" -> 8 [] ch = "9" -> 9

(***************************************************************************)
(* enum Error                                                              *)
(***************************************************************************)
NoError == [kind |-> "None", ch |-> ""]
ErrEOF == [kind |-> "EOF", ch |-> ""]
ErrUnknownCharacterType(c) == [kind |-> "UnknownCharacterType", ch |-> c]
ErrUnterminatedGroup == [kind |-> "UnterminatedGroup", ch |-> ""]

(***************************************************************************)
(* enum SingleCharacterMatcher                                             *)
(***************************************************************************)
NoChar == [kind |-> "None", ch |-> "", options |-> <<>>]
Literal(c) == [kind |-> "Literal", ch |-> c, options |-> <<>>]
Any == [kind |-> "Any", ch |-> "", options |-> <<>>]
Digit == [kind |-> "Digit", ch |-> "", options |-> <<>>]
Alphanumeric == [kind |-> "Alphanumeric", ch |-> "", options |-> <<>>]
Group(opts) == [kind |-> "Group", ch |-> "", options |-> opts]
NegativeGroup(opts) == [kind |-> "NegativeGroup", ch |-> "", options |-> opts]

(***************************************************************************)
(* enum Matcher.  inner holds the boxed matcher of a Repeat (one element)  *)
(* or the matchers of a CaptureGroup; gid is the ghost number of the       *)
(* group's opening parenthesis in the pattern (0: the implicit group of    *)
(* Pattern::test_section).                                                 *)
(***************************************************************************)
MkMatcher(k, in, c, ix, mn, mx, g) ==
    [kind |-> k, inner |-> in, sc |-> c, index |-> ix, min |-> mn, max |-> mx,
     gid |-> g]

Repeat(m, mn, mx) == MkMatcher("Repeat", <<m>>, NoChar, 0, mn, mx, 0)
CaptureGroup(ms, g) == MkMatcher("CaptureGroup", ms, NoChar, 0, <<>>, <<>>, g)
SingleCharacter(c) == MkMatcher("SingleCharacter", <<>>, c, 0, <<>>, <<>>, 0)
Backreference(ix) == MkMatcher("Backreference", <<>>, NoChar, ix, <<>>, <<>>, 0)
StartOfString == MkMatcher("StartOfString", <<>>, NoChar, 0, <<>>, <<>>, 0)
EndOfString == MkMatcher("EndOfString", <<>>, NoChar, 0, <<>>, <<>>, 0)
Alternative == MkMatcher("Alternative", <<>>, NoChar, 0, <<>>, <<>>, 0)

(***************************************************************************)
(* The parser.  The Peekable<Chars> is the pair (p, i): i is the index of  *)
(* the character next() returns, i > Len(p) when the iterator is drained.  *)
(* A parse returns [ok, val, i, g, err]: the value, the iterator after it  *)
(* and the number g of capture groups opened so far (ghost).               *)
(***************************************************************************)
POk(v, i, g) == [ok |-> TRUE, val |-> v, i |-> i, g |-> g, err |-> NoError]
PErr(e) == [ok |-> FALSE, val |-> NoChar, i |-> 0, g |-> 0, err |-> e]

\* SingleCharacterMatcher::new_literal
NewLiteral(ch) == Literal(ch)

\* new_class with the UnknownCharacterType arm lost: any other character
\* is taken as a literal
NewClass_NoUnknown(class, i, g) ==
    IF class = "d" THEN POk(Digit, i, g)
    ELSE IF class = "w" THEN POk(Alphanumeric, i, g)
    ELSE POk(Literal(class), i, g)

\* SingleCharacterMatcher::new_class
NewClass(class, i, g) ==
    IF ~IsAlphanumeric(class) THEN POk(Literal(class), i, g)
    ELSE IF class = "d" THEN POk(Digit, i, g)
    ELSE IF class = "w" THEN POk(Alphanumeric, i, g)
    ELSE PErr(ErrUnknownCharacterType(class))

\* SingleCharacterMatcher::new_in_group
NewInGroup(p, i, g) ==
    IF i > Len(p) THEN PErr(ErrEOF)
    ELSE IF p[i] = "\\"
         THEN IF i + 1 > Len(p) THEN PErr(ErrEOF)
              ELSE NewClass(p[i + 1], i + 2, g)
         ELSE POk(NewLiteral(p[i]), i + 1, g)

\* the while loop of SingleCharacterMatcher::new_group
RECURSIVE NewGroupLoop(_, _, _, _, _)
NewGroupLoop(p, i, g, options, negative) ==
    IF i > Len(p) THEN PErr(ErrEOF)
    ELSE IF p[i] = "]"
         THEN IF negative THEN POk(NegativeGroup(options), i + 1, g)
                          ELSE POk(Group(options), i + 1, g)
         ELSE LET r == NewInGroup(p, i, g)
              IN  IF ~r.ok THEN r
                  ELSE NewGroupLoop(p, r.i, g, Append(options, r.val), negative)

\* SingleCharacterMatcher::new_group
NewGroup(p, i, g) ==
    IF i <= Len(p) /\ p[i] = "^"
    THEN NewGroupLoop(p, i + 1, g, <<>>, TRUE)
    ELSE NewGroupLoop(p, i, g, <<>>, FALSE)

\* SingleCharacterMatcher::new
SingleCharacterMatcherNew(p, i, g) ==
    IF i > Len(p) THEN PErr(ErrEOF)
    ELSE IF p[i] = "\\"
         THEN IF i + 1 > Len(p) THEN PErr(ErrEOF)
              ELSE NewClass(p[i + 1], i + 2, g)
    ELSE IF p[i] = "[" THEN NewGroup(p, i + 1, g)
    ELSE IF p[i] = "." THEN POk(Any, i + 1, g)
    ELSE POk(NewLiteral(p[i]), i + 1, g)

\* Matcher::maybe_repeat
MaybeRepeat(matcher, p, i, g) ==
    IF i <= Len(p) /\ p[i] = "+" THEN POk(Repeat(matcher, <<1>>, <<>>), i + 1, g)
    ELSE IF i <= Len(p) /\ p[i] = "*" THEN POk(Repeat(matcher, <<>>, <<>>), i + 1, g)
    ELSE IF i <= Len(p) /\ p[i] = "?" THEN POk(Repeat(matcher, <<>>, <<1>>), i + 1, g)
    ELSE POk(matcher, i, g)

\* the '|' branch, had it gone through maybe_repeat like the branches of a
\* single character and of a group
NewAlternative_MaybeRepeat(p, i, g) == MaybeRepeat(Alternative, p, i + 1, g)

\* Matcher::new, the '|' branch: `'|' => { input.next(); Ok(Self::Alternative) }`
NewAlternative(p, i, g) == POk(Alternative, i + 1, g)

RECURSIVE MatcherNew(_, _, _)
RECURSIVE NewCaptureLoop(_, _, _, _, _)

\* Matcher::new, the while loop of the '(' branch; gid numbers the group
NewCaptureLoop(p, i, g, gid, matchers) ==
    IF i > Len(p)
    THEN PErr(ErrUnterminatedGroup)
    ELSE IF p[i] = ")"
         THEN MaybeRepeat(CaptureGroup(matchers, gid), p, i + 1, g)
         ELSE LET r == MatcherNew(p, i, g)
              IN  IF ~r.ok THEN r
                  ELSE NewCaptureLoop(p, r.i, r.g, gid, Append(matchers, r.val))

\* Matcher::new
MatcherNew(p, i, g) ==
    IF i > Len(p) THEN PErr(ErrEOF)
    ELSE IF p[i] = "^" THEN POk(StartOfString, i + 1, g)
    ELSE IF p[i] = "$" THEN POk(EndOfString, i + 1, g)
    ELSE IF p[i] = "(" THEN NewCaptureLoop(p, i + 1, g + 1, g + 1, <<>>)
    ELSE IF p[i] = "|" THEN NewAlternative(p, i, g)
    ELSE IF p[i] = "\\" /\ i + 1 <= Len(p) /\ IsAsciiDigit(p[i + 1])
         THEN POk(Backreference(DigitValue(p[i + 1])), i + 2, g)
    ELSE LET r == SingleCharacterMatcherNew(p, i, g)
         IN  IF ~r.ok THEN r
             ELSE MaybeRepeat(SingleCharacter(r.val), p, r.i, r.g)

\* Pattern::new, the while loop
RECURSIVE PatternNewLoop(_, _, _, _)
PatternNewLoop(p, i, g, matchers) ==
    IF i > Len(p) THEN [ok |-> TRUE, matchers |-> matchers, err |-> NoError]
    ELSE LET r == MatcherNew(p, i, g)
         IN  IF ~r.ok THEN [ok |-> FALSE, matchers |-> <<>>, err |-> r.err]
             ELSE PatternNewLoop(p, r.i, r.g, Append(matchers, r.val))

\* Pattern::new
PatternNew(p) == PatternNewLoop(p, 1, 0, <<>>)

(***************************************************************************)
(* struct BufferedIterator.  inner is the pair (s, pos): the characters of *)
(* the line and the number of them next() has returned, which is also the  *)
(* index enumerate() gives the next one.  The field peeked only caches the *)
(* next item of inner and is left out: peek reads s[pos + 1].              *)
(***************************************************************************)
\* BufferedIterator::new
BufferedIteratorNew(s) ==
    [s |-> s, pos |-> 0, buffer |-> <<>>, subbuffers |-> <<>>]

\* BufferedIterator::subdivide
Subdivide(it) == [it EXCEPT !.subbuffers = Append(@, <<>>)]

\* BufferedIterator::pop_divided: the popped string, and the iterator after
LastDivided(it) == it.subbuffers[Len(it.subbuffers)]
PopDivided(it) ==
    [it EXCEPT !.subbuffers = SubSeq(@, 1, Len(@) - 1)]

\* BufferedIterator::peek(): is_some(), and the character peeked
PeekSome(it) == it.pos < Len(it.s)
PeekChar(it) == it.s[it.pos + 1]

\* Iterator::next for BufferedIterator: the iterator after the call
IterNext(it) ==
    IF it.pos < Len(it.s)
    THEN LET ch == it.s[it.pos + 1]
             subs == it.subbuffers
         IN  [it EXCEPT !.pos = @ + 1,
                        !.buffer = Append(@, ch),
                        !.subbuffers =
                            IF Len(subs) = 0 THEN <<>>
                            ELSE [k \in 1..Len(subs) |-> Append(subs[k], ch)]]
    ELSE it

(***************************************************************************)
(* enum BacktrackInfo.  Option::None and BacktrackInfo::None are one       *)
(* value: Some(BacktrackInfo::None) is never handed to a matcher.          *)
(***************************************************************************)
BtNone == [kind |-> "None", n |-> 0, stack |-> <<>>]
BtRange(n) == [kind |-> "Range", n |-> n, stack |-> <<>>]
BtGroup(option, stack) == [kind |-> "Group", n |-> option, stack |-> stack]

(***************************************************************************)
(* A captured group: the String of the code is text.  Ghost: gid is the    *)
(* group that produced it, from and to the cursor where the group was      *)
(* entered and left, open marks the placeholder of a group still open.     *)
(***************************************************************************)
Cap(text, gid, from, to) ==
    [text |-> text, gid |-> gid, from |-> from, to |-> to, open |-> FALSE]
Placeholder(gid) ==
    [text |-> <<>>, gid |-> gid, from |-> 0, to |-> 0, open |-> TRUE]

(***************************************************************************)
(* What a call of Matcher::test gives: (ok, caps, bt) is the tuple it      *)
(* returns and input the iterator it leaves behind.  end is "return" when  *)
(* the call returns, "hang" when it never does and "panic" when it panics. *)
(* Ghost: log is the set of events of the call, part the set of groups     *)
(* that closed on the path the call returned.                              *)
(***************************************************************************)
Ret(ok, caps, bt, input, lg, part) ==
    [end |-> "return", ok |-> ok, caps |-> caps, bt |-> bt, input |-> input,
     log |-> lg, part |-> part]
NoRet(how, input, lg) ==
    [end |-> how, ok |-> FALSE, caps |-> <<>>, bt |-> BtNone, input |-> input,
     log |-> lg, part |-> {}]

Event(ev, a, b, c, ok) == [ev |-> ev, a |-> a, b |-> b, c |-> c, ok |-> ok]

\* SingleCharacterMatcher::test
RECURSIVE SingleCharacterMatcherTest(_, _)
SingleCharacterMatcherTest(c, ch) ==
    CASE c.kind = "Literal" -> c.ch = ch
      [] c.kind = "Digit" -> IsAsciiDigit(ch)
      [] c.kind = "Alphanumeric" -> IsAsciiAlphanumeric(ch) \/ ch = "_"
      [] c.kind = "Group" ->
            \E k \in 1..Len(c.options) : SingleCharacterMatcherTest(c.options[k], ch)
      [] c.kind = "NegativeGroup" ->
            ~\E k \in 1..Len(c.options) : SingleCharacterMatcherTest(c.options[k], ch)
      [] c.kind = "Any" -> TRUE

\* Matcher::test, SingleCharacter
TestSingleCharacter(c, input) ==
    Ret(PeekSome(input) /\ SingleCharacterMatcherTest(c, PeekChar(input)),
        <<>>, BtNone, IterNext(input), {}, {})

\* StartOfString with the test of the index lost
StartOfStringHolds_AnyIndex(input) == PeekSome(input)

\* Matcher::test, StartOfString: the condition
StartOfStringHolds(input) == PeekSome(input) /\ input.pos = 0

\* Matcher::test, StartOfString.  The event records the cursor before and
\* after the call.
TestStartOfString(input) ==
    LET ok == StartOfStringHolds(input)
        after == input
    IN  Ret(ok, <<>>, BtNone, after,
            {Event("start", input.pos, after.pos, 0, ok)}, {})

\* Matcher::test, EndOfString
TestEndOfString(input) ==
    Ret(~PeekSome(input), <<>>, BtNone, input, {}, {})

\* Matcher::test, Backreference: captured_groups[index].chars().all(...)
RECURSIVE BackreferenceAll(_, _, _)
BackreferenceAll(text, k, input) ==
    IF k > Len(text) THEN [ok |-> TRUE, input |-> input]
    ELSE IF PeekSome(input) /\ PeekChar(input) = text[k]
         THEN BackreferenceAll(text, k + 1, IterNext(input))
         ELSE [ok |-> FALSE, input |-> IterNext(input)]

\* Matcher::test, Backreference: `index >= captured_groups.len()`
BackreferenceMissing(index, captured_groups) == index >= Len(captured_groups)

\* Matcher::test, Backreference.  The event records the index, the ghost
\* gid of the entry compared against (-1: none) and whether it is open.
TestBackreference(m, input, captured_groups) ==
    LET index == m.index - 0
    IN  IF BackreferenceMissing(index, captured_groups)
        THEN Ret(FALSE, <<>>, BtNone, input,
                 {Event("backref", m.index, -1, 0, FALSE)}, {})
        ELSE LET entry == captured_groups[index + 1]
                 r == BackreferenceAll(entry.text, 1, input)
             IN  Ret(r.ok, <<>>, BtNone, r.input,
                     {Event("backref", m.index, entry.gid,
                            IF entry.open THEN 1 ELSE 0, r.ok)}, {})

\* split that takes no matcher for a separator: the one piece is inner
SplitAlternative_NoSplit(inner, k, cur, acc) == <<inner>>

\* <[Matcher]>::split(|m| m == &Matcher::Alternative)
RECURSIVE SplitAlternative(_, _, _, _)
SplitAlternative(inner, k, cur, acc) ==
    IF k > Len(inner) THEN Append(acc, cur)
    ELSE IF inner[k] = Alternative
         THEN SplitAlternative(inner, k + 1, <<>>, Append(acc, cur))
         ELSE SplitAlternative(inner, k + 1, Append(cur, inner[k]), acc)

\* Matcher::test, Repeat: the tail after the loop
RepeatEnd(m, input, count, lg, part) ==
    IF m.min # <<>> /\ count < m.min[1]
    THEN Ret(FALSE, <<>>, BtNone, input, lg, {})
    ELSE IF count > 0
         THEN Ret(TRUE, <<>>, BtRange(count), input, lg, part)
         ELSE Ret(TRUE, <<>>, BtNone, input, lg, part)

\* Matcher::test, Repeat with the limit of a resumed evaluation off by one
RangeLimit_OffByOne(backtrack, count) ==
    backtrack.kind = "Range" /\ count >= backtrack.n

\* Matcher::test, Repeat: `count >= (consumed - 1)` under a Range handle
RangeLimit(backtrack, count) ==
    backtrack.kind = "Range" /\ count >= backtrack.n - 1

\* Matcher::test, Repeat: `count == *max`
MaxLimit(m, count) == m.max # <<>> /\ count = m.max[1]

(***************************************************************************)
(* Ghost: the record of an evaluation of a Repeat that returned.  a is the *)
(* count of the Range handle it was given (0: none), b the number of       *)
(* repetitions it took, c the count of the handle it returned (0: none),   *)
(* m the matcher, after the iterator it left, caps its captured_groups.    *)
(***************************************************************************)
RepeatEvent(m, backtrack, count, input, captured_groups, r) ==
    [ev |-> "repeat", a |-> IF backtrack.kind = "Range" THEN backtrack.n ELSE 0,
     b |-> count, c |-> IF r.bt.kind = "Range" THEN r.bt.n ELSE 0, ok |-> r.ok,
     m |-> m, after |-> input, caps |-> captured_groups]

\* Matcher::test, Repeat: the tail after the loop, with its ghost record
RepeatReturn(m, input, captured_groups, backtrack, count, lg, part) ==
    LET r == RepeatEnd(m, input, count, lg, part)
    IN  [r EXCEPT !.log = @ \cup {RepeatEvent(m, backtrack, count, input,
                                               captured_groups, r)}]

\* the one element of a singleton.  A loop below binds the outcome of the
\* call it makes as the element of a singleton, so that the call is
\* evaluated once however often the loop body reads its outcome.
Only(S) == CHOOSE x \in S : TRUE

RECURSIVE Test(_, _, _, _)
RECURSIVE RepeatLoop(_, _, _, _, _, _, _)
RECURSIVE RepeatStep(_, _, _, _, _, _, _, _)
RECURSIVE OptionLoop(_, _, _, _, _, _, _)
RECURSIVE OptionStep(_, _, _, _, _, _, _, _)
RECURSIVE MatchLoop(_, _, _, _, _, _, _, _, _, _, _, _)
RECURSIVE MatchStep(_, _, _, _, _, _, _, _, _, _, _, _)

(***************************************************************************)
(* Matcher::test, Repeat: the loop, entered with count repetitions taken.  *)
(* An iteration that succeeds and leaves the iterator as it found it, with *)
(* no Range handle and no max to stop the loop, is followed by the same    *)
(* iteration for ever (count only grows): the call never returns.          *)
(***************************************************************************)
RepeatStep(m, input, captured_groups, backtrack, count, lg, part, r) ==
    LET lg2 == lg \cup r.log
    IN  IF r.end # "return" THEN NoRet(r.end, input, lg2)
        ELSE IF ~r.ok
             THEN RepeatReturn(m, input, captured_groups, backtrack, count, lg2, part)
        ELSE IF RangeLimit(backtrack, count)
             THEN RepeatReturn(m, input, captured_groups, backtrack, count, lg2, part)
        ELSE IF MaxLimit(m, count + 1)
             THEN RepeatReturn(m, r.input, captured_groups, backtrack, count + 1,
                               lg2, part \cup r.part)
        ELSE IF r.input = input /\ backtrack.kind # "Range"
             THEN NoRet("hang", input, lg2)
        ELSE RepeatLoop(m, r.input, captured_groups, backtrack, count + 1,
                        lg2, part \cup r.part)

\* Matcher::test, Repeat: one iteration, r what matcher.test gives on the
\* clone of input
RepeatLoop(m, input, captured_groups, backtrack, count, lg, part) ==
    Only({RepeatStep(m, input, captured_groups, backtrack, count, lg, part, r) :
            r \in {Test(m.inner[1], input, captured_groups, backtrack)}})

(***************************************************************************)
(* struct GroupBacktrackState as the match loop makes it before it runs    *)
(* matcher k: the cursor with its buffers, our_captures, an empty handle   *)
(* and matchers_to_resume.  Ghost: part, and all, the all_captures the     *)
(* matcher is about to be given.                                           *)
(***************************************************************************)
GroupBacktrackState(binput, our_captures, our_part, k, all_captures) ==
    [input |-> binput, captures |-> our_captures, part |-> our_part,
     backtrack |-> BtNone, resume |-> k, all |-> all_captures]

\* backtrack_stack.pop() and the swaps after it, all_captures left as the
\* failed matcher saw it
PopFrame_StaleCaptures(stack, all_captures, captured_groups, gid) ==
    LET state == stack[Len(stack)]
    IN  [state |-> state, stack |-> SubSeq(stack, 1, Len(stack) - 1),
         input |-> state.input, captures |-> state.captures,
         all |-> all_captures, part |-> state.part,
         binfo |-> state.backtrack, resume |-> state.resume]

\* backtrack_stack.pop() and the swaps after it: what the loop goes on with
PopFrame(stack, all_captures, captured_groups, gid) ==
    LET state == stack[Len(stack)]
    IN  [state |-> state, stack |-> SubSeq(stack, 1, Len(stack) - 1),
         input |-> state.input, captures |-> state.captures,
         all |-> captured_groups \o <<Placeholder(gid)>> \o state.captures,
         part |-> state.part,
         binfo |-> state.backtrack, resume |-> state.resume]

\* Ghost: the record of a pop after a child matcher failed.  stack and
\* dropped are the backtrack_stack and our_captures at the failure, p what
\* PopFrame gave, caps the captured_groups of the group.
PopEvent(gid, stack, our_captures, captured_groups, p) ==
    [ev |-> "pop", a |-> gid, b |-> 0, c |-> 0, ok |-> TRUE, stack |-> stack,
     dropped |-> our_captures, caps |-> captured_groups, p |-> p]

(***************************************************************************)
(* Matcher::test_group, 'match_loop of one alternative.  k is the index of *)
(* the matcher matcher_iter.next() returns (backtrack_matcher_iter is at   *)
(* the same place whenever a frame is made), stack the backtrack_stack     *)
(* (top last), binfo the backtrack_info.  visited holds the (frame, rest   *)
(* of the stack) pairs the loop has popped: popping one a second time puts *)
(* the loop in a state it was in before, so it runs for ever.              *)
(***************************************************************************)
MatchStep(option, k, gid, binput, our_captures, all_captures, our_part, stack, captured_groups, visited, lg, r) ==
    LET backtrack_state ==
            GroupBacktrackState(binput, our_captures, our_part, k, all_captures)
        lg2 == lg \cup r.log
        failed(how, l) ==
            [end |-> how, ok |-> FALSE, input |-> binput, caps |-> <<>>,
             part |-> {}, stack |-> <<>>, log |-> l]
    IN  IF r.end # "return" THEN failed(r.end, lg2)
        ELSE IF ~r.ok
        THEN IF stack # <<>>
             THEN LET p == PopFrame(stack, all_captures, captured_groups, gid)
                      key == <<p.state, p.stack>>
                      lg3 == lg2 \cup {PopEvent(gid, stack, our_captures,
                                                captured_groups, p)}
                  IN  IF \E v \in 1..Len(visited) : visited[v] = key
                      THEN failed("hang", lg3)
                      ELSE MatchLoop(option, p.resume, gid, p.input,
                                     p.captures, p.all, p.part, p.stack,
                                     p.binfo, captured_groups,
                                     Append(visited, key), lg3)
             ELSE failed("return", lg2)
        ELSE MatchLoop(option, k + 1, gid, r.input, our_captures \o r.caps,
                       all_captures \o r.caps, our_part \cup r.part,
                       IF r.bt.kind # "None"
                       THEN Append(stack, [backtrack_state EXCEPT !.backtrack = r.bt])
                       ELSE stack,
                       BtNone, captured_groups, visited, lg2)

\* Matcher::test_group, 'match_loop: the loop ends when matcher_iter does;
\* else one iteration, r what m.test gives
MatchLoop(option, k, gid, binput, our_captures, all_captures, our_part, stack, binfo, captured_groups, visited, lg) ==
    IF k > Len(option)
    THEN [end |-> "return", ok |-> TRUE, input |-> binput, caps |-> our_captures,
          part |-> our_part, stack |-> stack, log |-> lg]
    ELSE Only({MatchStep(option, k, gid, binput, our_captures, all_captures, our_part, stack, captured_groups, visited, lg, r) :
                 r \in {Test(option[k], binput, all_captures, binfo)}})

(***************************************************************************)
(* Matcher::test_group, 'option_loop from alternative option_id on.        *)
(* Events: "resume" when a call with a Group handle returns an             *)
(* alternative (a: the handle's, b: the one returned), "reeval" when such  *)
(* a call evaluates an alternative before the handle's.                    *)
(***************************************************************************)
OptionStep(options, option_id, gid, input, captured_groups, backtrack, lg, r) ==
    LET ev == IF backtrack.kind = "Group" /\ option_id < backtrack.n
              THEN {Event("reeval", backtrack.n, option_id, gid, r.ok)}
              ELSE {}
        lg2 == lg \cup r.log \cup ev
    IN  IF r.end # "return" THEN NoRet(r.end, input, lg2)
        ELSE IF r.ok
        THEN Ret(TRUE,
                 <<Cap(LastDivided(r.input), gid, input.pos, r.input.pos)>>
                     \o r.caps,
                 BtGroup(option_id, r.stack), PopDivided(r.input),
                 lg2 \cup (IF backtrack.kind = "Group"
                           THEN {Event("resume", backtrack.n, option_id, gid, TRUE)}
                           ELSE {}),
                 {gid} \cup r.part)
        ELSE OptionLoop(options, option_id + 1, gid, input,
                        captured_groups, backtrack, lg2)

\* Matcher::test_group, 'option_loop: alternative option_id, r what its
\* match loop gives, entered afresh or at the top frame of the handle
OptionLoop(options, option_id, gid, input, captured_groups, backtrack, lg) ==
    IF option_id >= Len(options)
    THEN Ret(FALSE, <<>>, BtNone, input, lg, {})
    ELSE
      LET option == options[option_id + 1]
          named == backtrack.kind = "Group" /\ backtrack.n = option_id
      IN  IF named /\ backtrack.stack = <<>>
          THEN OptionLoop(options, option_id + 1, gid, input, captured_groups,
                          backtrack, lg)
          ELSE
            LET backtrack_stack == IF named THEN backtrack.stack ELSE <<>>
                all_captures == captured_groups \o <<Placeholder(gid)>>
                p == PopFrame(backtrack_stack, all_captures, captured_groups, gid)
            IN  Only({OptionStep(options, option_id, gid, input, captured_groups, backtrack, lg, r) :
                        r \in {IF backtrack_stack = <<>>
                               THEN MatchLoop(option, 1, gid, Subdivide(input), <<>>,
                                              all_captures, {}, <<>>, BtNone,
                                              captured_groups, <<>>, {})
                               ELSE MatchLoop(option, p.resume, gid, p.input,
                                              p.captures, p.all, p.part, p.stack,
                                              p.binfo, captured_groups, <<>>, {})}})

\* Matcher::test_group
TestGroup(inner, gid, input, captured_groups, backtrack) ==
    OptionLoop(SplitAlternative(inner, 1, <<>>, <<>>), 0, gid, input,
               captured_groups, backtrack, {})

\* Matcher::test, Repeat
TestRepeat(m, input, captured_groups, backtrack) ==
    RepeatLoop(m, input, captured_groups, backtrack, 0, {}, {})

\* Matcher::test
Test(m, input, captured_groups, backtrack) ==
    CASE m.kind = "SingleCharacter" -> TestSingleCharacter(m.sc, input)
      [] m.kind = "StartOfString" -> TestStartOfString(input)
      [] m.kind = "EndOfString" -> TestEndOfString(input)
      [] m.kind = "CaptureGroup" ->
            TestGroup(m.inner, m.gid, input, captured_groups, backtrack)
      [] m.kind = "Backreference" -> TestBackreference(m, input, captured_groups)
      [] m.kind = "Alternative" -> NoRet("panic", input, {})
      [] m.kind = "Repeat" -> TestRepeat(m, input, captured_groups, backtrack)

\* Pattern::test_section: matched, the captures with the first removed.
\* Ghost: option is the top-level alternative that matched.
TestSection(matchers, input) ==
    LET r == Test(CaptureGroup(matchers, 0), input, <<>>, BtNone)
    IN  [end |-> r.end, matched |-> r.ok,
         captures |-> IF r.ok THEN SubSeq(r.caps, 2, Len(r.caps)) ELSE <<>>,
         input |-> r.input, log |-> r.log, part |-> r.part, option |-> r.bt.n]

(***************************************************************************)
(* The inputs: a pattern is a concatenation of at most MaxTokens tokens, a *)
(* line a string over LineAlphabet of at most MaxLineLen characters.       *)
(***************************************************************************)
Tokens ==
    { <<"a">>, <<"^">>, <<"$">>, <<"a", "?">>,
      <<"(", "a", ")", "*">>, <<"(", "b", ")">>,
      <<"\\", "1">>, <<"\\", "0">>,
      <<"(", ")", "*">>, <<"(", "a", "|", "a", ")">>,
      <<"(", "\\", "1", ")">>, <<"|">> }

RECURSIVE Concat(_)
Concat(ts) == IF ts = <<>> THEN <<>> ELSE ts[1] \o Concat(Tail(ts))

SeqsUpTo(S, n) == UNION {[1..k -> S] : k \in 0..n}

Patterns == {Concat(ts) : ts \in SeqsUpTo(Tokens, MaxTokens)}

LineAlphabet == {"a", "b"}

Lines == SeqsUpTo(LineAlphabet, MaxLineLen)

(***************************************************************************)
(* The state machine: Pattern::new, then Pattern::run on the line, one     *)
(* action per iteration of its while loop.                                 *)
(***************************************************************************)
NotCompiled == [ok |-> FALSE, matchers |-> <<>>, err |-> NoError]

\* (false, String::new(), Vec::new()); ghost: from and to delimit the
\* successful attempt, part is the set of groups that closed in it, option
\* the top-level alternative that matched
NoResult ==
    [matched |-> FALSE, buffered |-> <<>>, captured |-> <<>>,
     from |-> 0, to |-> 0, part |-> {}, option |-> 0]

Init ==
    /\ pattern \in Patterns
    /\ line \in Lines
    /\ pc = "new"
    /\ compiled = NotCompiled
    /\ iter = BufferedIteratorNew(<<>>)
    /\ result = NoResult
    /\ log = {}

\* Pattern::new
New ==
    /\ pc = "new"
    /\ compiled' = PatternNew(pattern)
    /\ pc' = IF compiled'.ok THEN "compiled" ELSE "error"
    /\ UNCHANGED <<pattern, line, iter, result, log>>

\* Pattern::run, up to the while loop
RunEnter ==
    /\ pc = "compiled"
    /\ iter' = BufferedIteratorNew(line)
    /\ pc' = "run"
    /\ UNCHANGED <<pattern, line, compiled, result, log>>

\* Pattern::run, one iteration of the while loop: the attempt at iter.
\* A test_section that does not return leaves run inside the call.
RunIterate ==
    /\ pc = "run"
    /\ PeekSome(iter)
    /\ \E r \in {TestSection(compiled.matchers, iter)} :
           /\ log' = log \cup r.log
           /\ IF r.end # "return"
              THEN /\ pc' = r.end
                   /\ UNCHANGED <<iter, result>>
              ELSE IF r.matched
              THEN /\ pc' = "done"
                   /\ result' = [matched |-> TRUE, buffered |-> r.input.buffer,
                                 captured |-> r.captures, from |-> iter.pos,
                                 to |-> r.input.pos, part |-> r.part,
                                 option |-> r.option]
                   /\ UNCHANGED iter
              ELSE /\ iter' = IterNext(iter)
                   /\ UNCHANGED <<pc, result>>
    /\ UNCHANGED <<pattern, line, compiled>>

\* Pattern::run, the while loop ends: iter.peek() is None
RunExhausted ==
    /\ pc = "run"
    /\ ~PeekSome(iter)
    /\ result' = NoResult
    /\ pc' = "done"
    /\ UNCHANGED <<pattern, line, compiled, iter, log>>

Next == New \/ RunEnter \/ RunIterate \/ RunExhausted

Spec == Init /\ [][Next]_vars

(***************************************************************************)
(* Pattern::new alone, on every string over ParseAlphabet of at most       *)
(* MaxParseLen characters.                                                 *)
(***************************************************************************)
ParseAlphabet == {"a", "q", "d", "1", "\\", "[", "]", "(", ")", "^", "*", "|"}

InitParse ==
    /\ pattern \in SeqsUpTo(ParseAlphabet, MaxParseLen)
    /\ line = <<>>
    /\ pc = "new"
    /\ compiled = NotCompiled
    /\ iter = BufferedIteratorNew(<<>>)
    /\ result = NoResult
    /\ log = {}

SpecParse == InitParse /\ [][New]_vars

(***************************************************************************)
(* Pattern::new and Pattern::run on patterns of quantified matchers: every *)
(* quantifier on a single character and on a group, followed or not by     *)
(* matchers that send the engine back into them.                           *)
(***************************************************************************)
RepeatTokens ==
    { <<"a">>, <<"b">>, <<"$">>, <<"a", "?">>, <<"a", "+">>, <<"a", "*">>,
      <<"(", "a", ")", "+">>, <<"(", "a", ")", "*">>, <<"(", "a", "*", ")", "?">> }

InitRepeat ==
    /\ pattern \in {Concat(ts) : ts \in SeqsUpTo(RepeatTokens, MaxTokens)}
    /\ line \in Lines
    /\ pc = "new"
    /\ compiled = NotCompiled
    /\ iter = BufferedIteratorNew(<<>>)
    /\ result = NoResult
    /\ log = {}

SpecRepeat == InitRepeat /\ [][Next]_vars

(***************************************************************************)
(* Properties.                                                             *)
(***************************************************************************)
Texts(caps) == [k \in 1..Len(caps) |-> caps[k].text]

\* C1: when run succeeds, the matched substring is exactly the characters
\* of the line from the start of the successful attempt to the final
\* cursor, with nothing that precedes the match start.
C1_MatchedIsConsumedSubstring ==
    (pc = "done" /\ result.matched)
        => result.buffered = SubSeq(line, result.from + 1, result.to)

\* Whether a matcher, or a sequence with its alternatives, accepts the
\* empty string; for matchers other than back-references.
RECURSIVE Nullable(_)
RECURSIVE NullableSeq(_)
Nullable(m) ==
    CASE m.kind = "SingleCharacter" -> FALSE
      [] m.kind = "StartOfString" -> TRUE
      [] m.kind = "EndOfString" -> TRUE
      [] m.kind = "CaptureGroup" -> NullableSeq(m.inner)
      [] m.kind = "Repeat" -> m.min = <<>> \/ Nullable(m.inner[1])
      [] OTHER -> FALSE
NullableSeq(ms) ==
    LET alts == SplitAlternative(ms, 1, <<>>, <<>>)
    IN  \E a \in 1..Len(alts) : \A k \in 1..Len(alts[a]) : Nullable(alts[a][k])

RECURSIVE HasBackreference(_)
HasBackreference(ms) ==
    \E k \in 1..Len(ms) :
        ms[k].kind = "Backreference" \/ HasBackreference(ms[k].inner)

\* C2: on the empty line, test is true for every pattern that accepts the
\* empty string (`^$`, `a?`) and false for one that needs a character.
C2_EmptyLine ==
    (pc = "done" /\ line = <<>> /\ ~HasBackreference(compiled.matchers))
        => (result.matched <=> NullableSeq(compiled.matchers))

\* C3: a back-reference \n, n in 1..9, compares the input against the text
\* captured by the group whose opening parenthesis is the n-th.
C3_BackrefComparesGroupN ==
    \A e \in log :
        (e.ev = "backref" /\ e.a \in 1..9 /\ e.b # -1) => e.b = e.a

\* C4: a back-reference succeeds only against the closed capture of its
\* group n: it fails for n = 0, for an n beyond the captured groups and
\* inside its own still-open group.
C4_UncapturedBackrefFails ==
    \A e \in log :
        (e.ev = "backref" /\ e.ok) => (e.a >= 1 /\ e.b = e.a /\ e.c = 0)

\* C5: on a successful run the captures hold one entry per group that took
\* part in the match, in the order of the opening parentheses, each the
\* substring its group consumed, and the whole match is not an entry.
C5_CapturesOfTheMatch ==
    (pc = "done" /\ result.matched) =>
        LET caps == result.captured
        IN  /\ {caps[k].gid : k \in 1..Len(caps)} = result.part \ {0}
            /\ \A k \in 1..Len(caps) - 1 : caps[k].gid < caps[k + 1].gid
            /\ \A k \in 1..Len(caps) :
                   caps[k].text = SubSeq(line, caps[k].from + 1, caps[k].to)

\* The attempt of the matcher sequence that starts at position s of the line
SectionAt(s) ==
    TestSection(compiled.matchers,
                [s |-> line, pos |-> s, buffer |-> <<>>, subbuffers |-> <<>>])

\* C6: run tries the start positions in increasing order and stops at the
\* first that succeeds: test is true iff some start position succeeds, and
\* the match and the captures reported are those of the smallest one.
C6_FirstStartPosition ==
    pc = "done" =>
        LET S == {s \in 0..(Len(line) - 1) : SectionAt(s).matched}
        IN  /\ result.matched <=> S # {}
            /\ result.matched =>
                 LET s0 == CHOOSE s \in S : \A t \in S : s <= t
                     r == SectionAt(s0)
                 IN  /\ result.buffered = SubSeq(line, s0 + 1, r.input.pos)
                     /\ Texts(result.captured) = Texts(r.captures)

\* The top-level alternative number n (from 0) of the compiled pattern
TopAlternative(n) == SplitAlternative(compiled.matchers, 1, <<>>, <<>>)[n + 1]

\* C7: StartOfString succeeds iff the cursor is at index 0 and consumes
\* nothing, so a sequence that begins with `^` is never matched by an
\* attempt that starts after position 0.
C7_StartAnchor ==
    /\ \A e \in log : e.ev = "start" => ((e.ok <=> e.a = 0) /\ e.b = e.a)
    /\ (pc = "done" /\ result.matched
          /\ TopAlternative(result.option) # <<>>
          /\ TopAlternative(result.option)[1] = StartOfString)
         => result.from = 0

\* C7 witness: a pattern with `^` first and nowhere else was tried at
\* position 0, where the anchor held, and in an attempt that started after
\* position 0, where it did not, and run reported no match.
C7_Witness ==
    /\ pc = "done" /\ ~result.matched /\ iter.pos > 0
    /\ compiled.matchers # <<>> /\ compiled.matchers[1] = StartOfString
    /\ \A k \in 2..Len(compiled.matchers) : compiled.matchers[k] # StartOfString
    /\ \E e \in log : e.ev = "start" /\ e.a = 0 /\ e.ok
    /\ \E e \in log : e.ev = "start" /\ e.a > 0 /\ ~e.ok

(***************************************************************************)
(* The failures of Pattern::new read off the pattern string by one pass    *)
(* from left to right: depth counts the capture groups open, inset tells   *)
(* whether the pass is between `[` and its `]`.  digitsKnown tells whether *)
(* outside a bracket set a backslash and a digit, a back-reference, is     *)
(* known.                                                                  *)
(***************************************************************************)
RECURSIVE ScanErrors(_, _, _, _, _)
ScanErrors(p, i, depth, inset, digitsKnown) ==
    IF i > Len(p)
    THEN (IF inset THEN {ErrEOF} ELSE {})
            \cup (IF depth > 0 THEN {ErrUnterminatedGroup} ELSE {})
    ELSE IF p[i] = "\\"
    THEN IF i = Len(p) THEN {ErrEOF}
         ELSE LET c == p[i + 1]
                  known == \/ c \in {"d", "w"}
                           \/ (digitsKnown /\ ~inset /\ c \in Digits)
              IN  (IF IsAlphanumeric(c) /\ ~known
                   THEN {ErrUnknownCharacterType(c)} ELSE {})
                    \cup ScanErrors(p, i + 2, depth, inset, digitsKnown)
    ELSE IF inset
    THEN ScanErrors(p, i + 1, depth, p[i] # "]", digitsKnown)
    ELSE IF p[i] = "["
    THEN IF i + 1 <= Len(p) /\ p[i + 1] = "^"
         THEN ScanErrors(p, i + 2, depth, TRUE, digitsKnown)
         ELSE ScanErrors(p, i + 1, depth, TRUE, digitsKnown)
    ELSE IF p[i] = "("
    THEN ScanErrors(p, i + 1, depth + 1, FALSE, digitsKnown)
    ELSE IF p[i] = ")" /\ depth > 0
    THEN ScanErrors(p, i + 1, depth - 1, FALSE, digitsKnown)
    ELSE ScanErrors(p, i + 1, depth, FALSE, digitsKnown)

FailsExactly(errors) ==
    pc # "new" =>
        /\ compiled.ok <=> errors = {}
        /\ ~compiled.ok => compiled.err \in errors

\* C8 as stated: Pattern::new fails exactly when the pattern ends after a
\* backslash (EOF), has a backslash before an alphanumeric character other
\* than a class shorthand d or w (UnknownCharacterType), a `[` with no `]`
\* (EOF) or a `(` with no `)` (UnterminatedGroup).
C8_FailsExactly_AsStated ==
    FailsExactly(ScanErrors(pattern, 1, 0, FALSE, FALSE))

\* C8 amended: as above, except that outside a bracket set a backslash
\* before a digit is a back-reference and compiles.
C8_FailsExactly ==
    FailsExactly(ScanErrors(pattern, 1, 0, FALSE, TRUE))

\* C8 witness: inside a bracket set a backslash before a digit was refused.
C8_Witness ==
    /\ pc = "error"
    /\ compiled.err = ErrUnknownCharacterType("1")

\* C9: Pattern::run terminates on every compiled pattern and every line.
C9_RunTerminates == pc # "hang"

\* C10: a group resumed with a handle that names alternative i never
\* returns an alternative before i.
C10_NeverAnEarlierAlternative ==
    \A e \in log : e.ev = "resume" => e.b >= e.a

(***************************************************************************)
(* C11.  The reference: the greedy maximum of a quantified single          *)
(* character at a cursor, counted on the line, and the rest of the         *)
(* sequence evaluated on its own at the cursor a repetition count leaves.  *)
(***************************************************************************)
RECURSIVE GreedyMax(_, _, _)
GreedyMax(m, pos, count) ==
    IF MaxLimit(m, count) THEN count
    ELSE IF pos < Len(line) /\ SingleCharacterMatcherTest(m.inner[1].sc, line[pos + 1])
         THEN GreedyMax(m, pos + 1, count + 1)
         ELSE count

RECURSIVE IterAt(_)
IterAt(pos) == IF pos = 0 THEN BufferedIteratorNew(line) ELSE IterNext(IterAt(pos - 1))

RestMatchesAt(pos) ==
    TestSection(SubSeq(compiled.matchers, 2, Len(compiled.matchers)), IterAt(pos)).matched

\* the pattern is one alternative that starts with a quantified single
\* character and goes on with further matchers
QuantifiedCharThenRest ==
    /\ compiled.ok
    /\ Len(compiled.matchers) >= 2
    /\ compiled.matchers[1].kind = "Repeat"
    /\ compiled.matchers[1].inner[1].kind = "SingleCharacter"
    /\ \A k \in 1..Len(compiled.matchers) : compiled.matchers[k] # Alternative

\* some start on the line and some repetition count between min and the
\* greedy maximum there let the rest of the sequence match
SomeCountLetsRestMatch ==
    LET m == compiled.matchers[1]
        mn == IF m.min = <<>> THEN 0 ELSE m.min[1]
    IN  \E s \in 0..(Len(line) - 1) : \E n \in mn..GreedyMax(m, s, 0) :
            RestMatchesAt(s + n)

\* C11: a pattern that starts with a quantified single character and goes
\* on with further matchers matches the line whenever some repetition
\* count between min and the greedy maximum lets the rest match: once run
\* has left its loop, or is caught in it for ever, it has reported a match.
C11_GivesBackUntilRestMatches ==
    (pc \in {"done", "hang", "panic"} /\ QuantifiedCharThenRest /\ SomeCountLetsRestMatch)
        => (pc = "done" /\ result.matched)

\* bounds of a Repeat as numbers: no min is 0, no max is beyond any count
MinOf(m) == IF m.min = <<>> THEN 0 ELSE m.min[1]
AtMax(m, n) == m.max # <<>> /\ n = m.max[1]
WithinMax(m, n) == m.max = <<>> \/ n <= m.max[1]

\* the inner matcher does not match once more where the evaluation stopped
NoFurtherRepetition(e) == ~Test(e.m.inner[1], e.after, e.caps, BtNone).ok

\* C12: a first evaluation of a Repeat takes the greedy maximum n of
\* repetitions (at most max), succeeds iff n >= min and returns a handle
\* that carries n exactly when n > 0; an evaluation resumed with handle
\* n_prev takes exactly n_prev - 1 repetitions, fails if that is below
\* min, and a handle it returns is strictly smaller than n_prev.
C12_RepeatContract ==
    \A e \in log : e.ev = "repeat" =>
        /\ e.ok <=> e.b >= MinOf(e.m)
        /\ e.c = (IF e.ok /\ e.b > 0 THEN e.b ELSE 0)
        /\ e.a = 0 => /\ WithinMax(e.m, e.b)
                      /\ AtMax(e.m, e.b) \/ NoFurtherRepetition(e)
        /\ e.a > 0 => /\ e.b = e.a - 1
                      /\ e.c < e.a

\* a Repeat resumed with handle 2 took one repetition and returned handle
\* 1, and one resumed below its min failed
C12_Witness ==
    /\ \E e \in log : e.ev = "repeat" /\ e.a = 2 /\ e.b = 1 /\ e.c = 1 /\ e.ok
    /\ \E e \in log : e.ev = "repeat" /\ e.a = 1 /\ e.b = 0 /\ ~e.ok
    /\ \E e \in log : e.ev = "repeat" /\ e.a = 0 /\ e.b = 0 /\ ~e.ok

\* C13: when a child matcher fails inside a group alternative, the frame
\* popped is the most recently pushed one, the loop goes on with the
\* cursor, the buffers and the captures the frame's matcher found before
\* it ran, at that matcher and with the handle the frame stores; captures
\* closed since are discarded and the capture list that later
\* back-references are given holds the restored captures only.
C13_PopRestores ==
    \A e \in log : e.ev = "pop" =>
        LET top == e.stack[Len(e.stack)]
        IN  /\ e.p.state = top
            /\ e.p.stack = SubSeq(e.stack, 1, Len(e.stack) - 1)
            /\ e.p.input = top.input
            /\ e.p.captures = top.captures
            /\ e.p.all = top.all
            /\ e.p.all = e.caps \o <<Placeholder(e.a)>> \o top.captures
            /\ e.p.resume = top.resume
            /\ e.p.binfo = top.backtrack
            /\ e.p.binfo.kind # "None"

\* a pop discarded a capture closed after the frame was pushed and moved
\* the cursor back, and a back-reference was evaluated in that run
C13_Witness ==
    /\ \E e \in log : /\ e.ev = "pop"
                      /\ Len(e.dropped) > Len(e.p.captures)
                      /\ Len(e.stack) > 1
    /\ \E e \in log : e.ev = "backref" /\ e.b > 0
    /\ pc = "done"
    /\ result.matched

\* C14: Matcher::test is never called on Alternative: no run of a compiled
\* pattern on a line reaches the todo! of that branch.
C14_AlternativeNeverTested == pc # "panic"

\* a run got past a top-level alternative that failed and matched the
\* next one, inside which a group with alternatives of its own closed
C14_Witness ==
    /\ pc = "done"
    /\ result.matched
    /\ result.option = 1
    /\ \E k \in 1..Len(compiled.matchers) :
          /\ compiled.matchers[k].kind = "CaptureGroup"
          /\ compiled.matchers[k].gid \in result.part
          /\ \E j \in 1..Len(compiled.matchers[k].inner) :
                compiled.matchers[k].inner[j] = Alternative

\* Alternative somewhere in the tree of m other than as an element of the
\* sequence of a group
RECURSIVE AlternativeOutsideGroup(_)
AlternativeOutsideGroup(m) ==
    CASE m.kind = "Repeat" ->
            m.inner[1] = Alternative \/ AlternativeOutsideGroup(m.inner[1])
      [] m.kind = "CaptureGroup" ->
            \E k \in 1..Len(m.inner) : AlternativeOutsideGroup(m.inner[k])
      [] OTHER -> FALSE

====
